---- MODULE Spec2Model ----
(***************************************************************************)
(* Model of paasta_tools/vitesscluster_tools.py: the synthesis of a        *)
(* VitessCluster custom-resource tree from an instance description.        *)
(*                                                                         *)
(* Encoding of Python values:                                              *)
(*   - a dict is a function from strings (a record);                       *)
(*   - a list is a sequence;                                               *)
(*   - a str is a string, an f-string is a concatenation (\o);             *)
(*   - None is the reserved string None, which no input holds; an          *)
(*     f-string formats it as the text "None" (Format);                    *)
(*   - an object that is shared rather than created by the call is held    *)
(*     in a tree as a reference Ref(name) to the shared object.            *)
(***************************************************************************)
EXTENDS Integers, Sequences, FiniteSets, TLC

VARIABLES
    globals,          \* the module-level blueprints (process-wide objects)
    instance_config,  \* the instance description of the latest call
    result,           \* outcome of the latest generate_vitess_instance_config
    port_queries,     \* get_mysql_port_mappings() calls made by the latest call
    calls,            \* number of synthesis calls made so far
    prev_region,      \* region of the call before the latest one, or None
    pool_call,        \* outcome of the latest direct build_tablet_pool_config
    load_call,        \* outcome of the latest load_vitess_service_instance_configs
    threads           \* the synthesis calls that run interleaved, per thread

vars == <<globals, instance_config, result, port_queries, calls, prev_region,
          pool_call, load_call, threads>>

-----------------------------------------------------------------------------
(* Bounds *)
MaxCells == 2
MaxKeyspaces == 2
MaxCalls == 2

-----------------------------------------------------------------------------
(* Python values *)
None == "None:NoneType"

\* str.format of a value inside an f-string
Format(x) == IF x = None THEN "None" ELSE x

\* dict.get(key, "")
get_or_empty(d, k) == IF k \in DOMAIN d THEN d[k] ELSE ""

\* dict.get(key)
get(d, k) == IF k \in DOMAIN d THEN d[k] ELSE None

\* a reference to an object that the call did not create
Ref(name) == [ref |-> name]

-----------------------------------------------------------------------------
(* Module constants, lines 20-35 *)
KUBERNETES_NAMESPACE == "paasta-vitessclusters"
IMAGE_TAG == "v16.0.3"
VTCTLD_IMAGE == "docker-paasta.yelpcorp.com:443/vitess_base:" \o IMAGE_TAG
VT_GATE_IMAGE == "docker-paasta.yelpcorp.com:443/vitess_base:" \o IMAGE_TAG
VT_TABLET_IMAGE == "docker-paasta.yelpcorp.com:443/vitess_base:" \o IMAGE_TAG
VT_ADMIN_IMAGE == "docker-dev.yelpcorp.com/vtadmin:" \o IMAGE_TAG

TOPO_IMPLEMENTATION == "zk2"
TOPO_GLOBAL_ROOT == "/vitess-paasta/global"
SOURCE_DB_HOST == "169.254.255.254"
TABLET_TYPES_reversed == <<"migration", "primary">>
TABLET_TYPES == <<"primary", "migration">>
WEB_PORT == "15000"
GRPC_PORT == "15999"

(* Blueprints, lines 39-173: the values the module is loaded with *)
VTCTLD_EXTRA_ENV ==
    << [name |-> "WEB_PORT", value |-> WEB_PORT],
       [name |-> "GRPC_PORT", value |-> GRPC_PORT],
       [name |-> "TOPOLOGY_FLAGS", value |-> ""] >>

VTTABLET_EXTRA_ENV ==
    << [name |-> "CELL_TOPOLOGY_SERVERS", value |-> ""],
       [name |-> "SHARD", value |-> "0"],
       [name |-> "DB", value |-> ""],
       [name |-> "EXTERNAL_DB", value |-> "1"],
       [name |-> "KEYSPACE", value |-> ""],
       [name |-> "ROLE", value |-> "rdonly"],
       [name |-> "WEB_PORT", value |-> WEB_PORT],
       [name |-> "GRPC_PORT", value |-> GRPC_PORT],
       [name |-> "TOPOLOGY_FLAGS", value |-> ""],
       [name |-> "VAULT_ADDR",
        value |-> "https://vault-dre.uswest1-devc.yelpcorp.com:8200"],
       [name |-> "VAULT_ROLEID",
        valueFrom |-> [secretKeyRef |->
           [name |-> "paasta-vitessclusters-secret-vitess-k8s-vault-vttablet-approle-roleid",
            key |-> "vault-vttablet-approle-roleid"]]],
       [name |-> "VAULT_SECRETID",
        valueFrom |-> [secretKeyRef |->
           [name |-> "paasta-vitessclusters-secret-vitess-k8s-vault-vttablet-approle-secretid",
            key |-> "vault-vttablet-approle-secretid"]]],
       [name |-> "VAULT_CACERT",
        value |-> "/etc/vault/all_cas/acm-privateca-uswest1-devc.crt"] >>

VTGATE_EXTRA_ENV ==
    << [name |-> "VAULT_ADDR",
        value |-> "https://vault-dre.uswest1-devc.yelpcorp.com:8200"],
       [name |-> "VAULT_ROLEID",
        valueFrom |-> [secretKeyRef |->
           [name |-> "paasta-vitessclusters-secret-vitess-k8s-vault-vtgate-approle-roleid",
            key |-> "vault-vtgate-approle-roleid"]]],
       [name |-> "VAULT_SECRETID",
        valueFrom |-> [secretKeyRef |->
           [name |-> "paasta-vitessclusters-secret-vitess-k8s-vault-vtgate-approle-secretid",
            key |-> "vault-vtgate-approle-secretid"]]],
       [name |-> "VAULT_CACERT",
        value |-> "/etc/vault/all_cas/acm-privateca-uswest1-devc.crt"] >>

VTADMIN_EXTRA_FLAGS == ("grpc-allow-reflection" :> "true")

VTCTLD_EXTRA_FLAGS ==
    ("disable_active_reparents" :> "true") @@ ("security_policy" :> "read-only")

VTTABLET_EXTRA_FLAGS ==
    ("log_err_stacks" :> "true")
    @@ ("grpc_max_message_size" :> "134217728")
    @@ ("init_tablet_type" :> "replica")
    @@ ("queryserver-config-schema-reload-time" :> "1800")
    @@ ("dba_pool_size" :> "4")
    @@ ("vreplication_heartbeat_update_interval" :> "60")
    @@ ("vreplication_tablet_type" :> "REPLICA")
    @@ ("keep_logs" :> "72h")
    @@ ("enable-lag-throttler" :> "true")
    @@ ("throttle_check_as_check_self" :> "true")
    @@ ("throttle_metrics_query" :> "")
    @@ ("throttle_metrics_threshold" :> "")
    @@ ("db_charset" :> "utf8mb4")
    @@ ("disable_active_reparents" :> "true")

\* the module namespace once the module is imported
ModuleGlobals ==
    [VTCTLD_EXTRA_ENV |-> VTCTLD_EXTRA_ENV,
     VTTABLET_EXTRA_ENV |-> VTTABLET_EXTRA_ENV,
     VTGATE_EXTRA_ENV |-> VTGATE_EXTRA_ENV,
     VTADMIN_EXTRA_FLAGS |-> VTADMIN_EXTRA_FLAGS,
     VTCTLD_EXTRA_FLAGS |-> VTCTLD_EXTRA_FLAGS,
     VTTABLET_EXTRA_FLAGS |-> VTTABLET_EXTRA_FLAGS]

-----------------------------------------------------------------------------
(* Object identity.  A handle is the object a local name is bound to: the   *)
(* module-level object itself (shared) or a fresh object, with the value    *)
(* the object holds.  A write to a shared object is a write to the module   *)
(* namespace.                                                               *)

\* the binding  x = BLUEPRINT  without a copy: writes to x reach the blueprint
alias(g, name) == [shared |-> TRUE, name |-> name, value |-> g[name]]

\* copy.deepcopy(BLUEPRINT): a fresh list of fresh dicts
copy_deepcopy(g, name) == [shared |-> FALSE, name |-> name, value |-> g[name]]

\* BLUEPRINT.copy(): a fresh dict (the values are immutable strings)
dict_copy(g, name) == [shared |-> FALSE, name |-> name, value |-> g[name]]

\* the object after in-place writes that leave it with value v
Update(h, v) == [h EXCEPT !.value = v]

\* the module namespace once the object behind handle h holds h.value
Written(g, h) == IF h.shared THEN [g EXCEPT ![h.name] = h.value] ELSE g

\* d[k] = v on a dict
SetItem(d, k, v) == (k :> v) @@ d

\* env["value"] = value without the test of the name
SetUnconditionally(env, name, value) == SetItem(env, "value", value)

\* if env["name"] == name: env["value"] = value
SetIfNamed(env, name, value) ==
    IF env["name"] = name THEN SetItem(env, "value", value) ELSE env

-----------------------------------------------------------------------------
(* Shared helpers, lines 176-220 *)
build_affinity_spec(paasta_pool) ==
    [nodeAffinity |->
      [requiredDuringSchedulingIgnoredDuringExecution |->
        [nodeSelectorTerms |->
          << [matchExpressions |->
               << [key |-> "yelp.com/pool",
                   operator |-> "In",
                   values |-> <<paasta_pool>>] >>] >>]]]

build_extra_labels(paasta_pool, paasta_cluster) ==
    ("yelp.com/owner" :> "dre_mysql_working_hours")
    @@ ("paasta.yelp.com/cluster" :> paasta_cluster)
    @@ ("paasta.yelp.com/pool" :> paasta_pool)

build_extra_env(paasta_cluster) ==
    << [name |-> "PAASTA_POD_IP",
        valueFrom |-> [fieldRef |-> [fieldPath |-> "status.podIP"]]],
       [name |-> "PAASTA_CLUSTER", value |-> paasta_cluster] >>

\* the two region-derived strings (lines 232/234, 253/255, 351/357, 444/446)
VaultAddr(region) == "https://vault-dre." \o Format(region) \o ".yelpcorp.com:8200"
VaultCacert(region) == "/etc/vault/all_cas/acm-privateca-" \o Format(region) \o ".crt"

\* the TOPOLOGY_FLAGS f-string (lines 284, 436); "$" is literal text in it
TopologyFlags(zk_address) ==
    "--topo_implementation " \o TOPO_IMPLEMENTATION
    \o " --topo_global_server_address $" \o Format(zk_address)
    \o " --topo_global_root " \o TOPO_GLOBAL_ROOT

-----------------------------------------------------------------------------
(* build_cell_config, lines 223-257.  Each builder returns its config and  *)
(* the module namespace as the call leaves it.                              *)

\* body of the loop of lines 251-255 for one entry
VtgateEnvEntry(env, region) ==
    SetIfNamed(SetIfNamed(env, "VAULT_ADDR", VaultAddr(region)),
               "VAULT_CACERT", VaultCacert(region))

\* lines 250-256: the copy of the blueprint after the loop
VtgateEnv(vtgate_extra_env, region) ==
    Update(vtgate_extra_env,
           [i \in DOMAIN vtgate_extra_env.value |->
               VtgateEnvEntry(vtgate_extra_env.value[i], region)])

\* lines 227-249, 256-257
CellConfig(g, vtgate_extra_env, cell, paasta_pool, paasta_cluster, region) ==
    [globals |-> Written(g, vtgate_extra_env),
     config |->
       [name |-> cell,
        gateway |->
          [extraFlags |->
             ("mysql_auth_server_impl" :> "vault")
             @@ ("mysql_auth_vault_addr" :> VaultAddr(region))
             @@ ("mysql_auth_vault_path" :>
                   "secrets/vitess/vt-gate/vttablet_credentials.json")
             @@ ("mysql_auth_vault_tls_ca" :> VaultCacert(region))
             @@ ("mysql_auth_vault_ttl" :> "60s"),
           affinity |-> build_affinity_spec(paasta_pool),
           extraLabels |-> build_extra_labels(paasta_pool, paasta_cluster),
           extraEnv |-> build_extra_env(paasta_cluster) \o vtgate_extra_env.value,
           replicas |-> 1,
           resources |->
             [requests |-> [cpu |-> "100m", memory |-> "256Mi"],
              limits |-> [memory |-> "256Mi"]]]]]

build_cell_config(g, cell, paasta_pool, paasta_cluster, region) ==
    CellConfig(g, VtgateEnv(copy_deepcopy(g, "VTGATE_EXTRA_ENV"), region),
               cell, paasta_pool, paasta_cluster, region)

-----------------------------------------------------------------------------
(* build_vitess_dashboard_config, lines 260-287 *)

\* body of the loop of lines 280-284 for one entry
VtctldEnvEntry(env, zk_address) ==
    SetIfNamed(env, "TOPOLOGY_FLAGS", TopologyFlags(zk_address))

\* lines 279-285: the copy of the blueprint after the loop
VtctldEnv(vtctld_extra_env, zk_address) ==
    Update(vtctld_extra_env,
           [i \in DOMAIN vtctld_extra_env.value |->
               VtctldEnvEntry(vtctld_extra_env.value[i], zk_address)])

\* lines 264-278, 285-287.  cells is the caller's list object and extraFlags
\* the module's dict object: neither is copied (lines 265, 269)
DashboardConfig(g, vtctld_extra_env, cells, paasta_pool, paasta_cluster) ==
    [globals |-> Written(g, vtctld_extra_env),
     config |->
       [cells |-> cells,
        affinity |-> build_affinity_spec(paasta_pool),
        extraLabels |-> build_extra_labels(paasta_pool, paasta_cluster),
        extraEnv |-> build_extra_env(paasta_cluster) \o vtctld_extra_env.value,
        extraFlags |-> Ref("VTCTLD_EXTRA_FLAGS"),
        replicas |-> 1,
        resources |->
          [requests |-> [cpu |-> "100m", memory |-> "128Mi"],
           limits |-> [memory |-> "128Mi"]]]]

build_vitess_dashboard_config(g, cells, paasta_pool, paasta_cluster, zk_address) ==
    DashboardConfig(g, VtctldEnv(copy_deepcopy(g, "VTCTLD_EXTRA_ENV"), zk_address),
                    cells, paasta_pool, paasta_cluster)

(* build_vt_admin_config, lines 290-318 *)
build_vt_admin_config(cells, paasta_pool, paasta_cluster) ==
    [cells |-> cells,
     apiAddresses |-> <<"http://localhost:15000">>,
     affinity |-> build_affinity_spec(paasta_pool),
     extraLabels |-> build_extra_labels(paasta_pool, paasta_cluster),
     extraFlags |-> Ref("VTADMIN_EXTRA_FLAGS"),
     extraEnv |-> build_extra_env(paasta_cluster),
     replicas |-> 1,
     readOnly |-> FALSE,
     apiResources |->
       [requests |-> [cpu |-> "100m", memory |-> "128Mi"],
        limits |-> [memory |-> "128Mi"]],
     webResources |->
       [requests |-> [cpu |-> "100m", memory |-> "128Mi"],
        limits |-> [memory |-> "128Mi"]]]

-----------------------------------------------------------------------------
(* build_tablet_pool_config, lines 321-452 *)

\* lines 337-358: the copy of the flags blueprint after the writes
VttabletFlags(flags, db_name, throttle_query_table, throttle_metrics_threshold, region) ==
    Update(flags,
        ("throttle_metrics_query" :>
            "select max_replication_delay from max_mysql_replication_delay."
            \o throttle_query_table \o ";")
        @@ ("throttle_metrics_threshold" :> throttle_metrics_threshold)
        @@ ("enforce-tableacl-config" :> "true")
        @@ ("table-acl-config" :>
            "/etc/vitess_keyspace_acls/acls_for_" \o Format(db_name) \o ".json")
        @@ ("table-acl-config-reload-interval" :> "60s")
        @@ ("queryserver-config-strict-table-acl" :> "true")
        @@ ("db-credentials-server" :> "vault")
        @@ ("db-credentials-vault-addr" :> VaultAddr(region))
        @@ ("db-credentials-vault-path" :>
            "secrets/vitess/vt-tablet/vttablet_credentials.json")
        @@ ("db-credentials-vault-tls-ca" :> VaultCacert(region))
        @@ ("db-credentials-vault-ttl" :> "60s")
        @@ flags.value)

\* lines 360-363 without the else branch
DatastoreTypeAlwaysMaster(tablet_type) == "externalmaster"

\* lines 360-363
DatastoreType(tablet_type) ==
    IF tablet_type = "primary" THEN "externalmaster" ELSE "externalreplica"

\* lines 367 and 450 with the two parts exchanged
PoolNameRoleFirst(db_name, tablet_type) ==
    Format(tablet_type) \o "_" \o Format(db_name)

\* lines 367 and 450: f"{db_name}_{tablet_type}"
PoolName(db_name, tablet_type) == Format(db_name) \o "_" \o Format(tablet_type)

\* body of the loop of lines 432-446 for one entry
VttabletEnvEntry(env, db_name, keyspace, zk_address, region) ==
    SetIfNamed(
      SetIfNamed(
        SetIfNamed(
          SetIfNamed(
            SetIfNamed(
              SetIfNamed(env, "TOPOLOGY_FLAGS", TopologyFlags(zk_address)),
              "CELL_TOPOLOGY_SERVERS", zk_address),
            "DB", db_name),
          "KEYSPACE", keyspace),
        "VAULT_ADDR", VaultAddr(region)),
      "VAULT_CACERT", VaultCacert(region))

\* lines 431-447: the copy of the blueprint after the loop
VttabletEnv(vttablet_extra_env, db_name, keyspace, zk_address, region) ==
    Update(vttablet_extra_env,
           [i \in DOMAIN vttablet_extra_env.value |->
               VttabletEnvEntry(vttablet_extra_env.value[i], db_name, keyspace,
                                zk_address, region)])

\* lines 360-429, 447-452
TabletPoolConfig(g, vttablet_extra_flags, vttablet_extra_env, cell, db_name, port, paasta_pool, paasta_cluster, tablet_type) ==
    [globals |-> Written(Written(g, vttablet_extra_flags), vttablet_extra_env),
     config |->
       [cell |-> cell,
        name |-> PoolName(db_name, tablet_type),
        type |-> DatastoreType(tablet_type),
        affinity |-> build_affinity_spec(paasta_pool),
        extraLabels |->
           SetItem(build_extra_labels(paasta_pool, paasta_cluster),
                   "tablet_type", PoolName(db_name, tablet_type)),
        extraEnv |-> build_extra_env(paasta_cluster) \o vttablet_extra_env.value,
        extraVolumeMounts |->
          << [mountPath |-> "/etc/vault/all_cas", name |-> "vault-secrets",
              readOnly |-> TRUE],
             [mountPath |-> "/etc/vitess_keyspace_acls", name |-> "acls",
              readOnly |-> TRUE],
             [mountPath |-> "etc/credentials.yaml",
              name |-> "vttablet-fake-credentials", readOnly |-> TRUE],
             [mountPath |-> "/etc/init_db.sql",
              name |-> "keyspace-fake-init-script", readOnly |-> TRUE] >>,
        extraVolumes |->
          << [name |-> "vault-secrets",
              hostPath |-> [path |-> "/nail/etc/vault/all_cas"]],
             [name |-> "acls",
              hostPath |-> [path |-> "/nail/srv/configs/vitess_keyspace_acls"]],
             [name |-> "vttablet-fake-credentials",
              hostPath |-> [path |-> "/dev/null"]],
             [name |-> "keyspace-fake-init-script",
              hostPath |-> [path |-> "/dev/null"]] >>,
        replicas |-> 1,
        vttablet |->
          [extraFlags |-> vttablet_extra_flags.value,
           resources |->
             [requests |-> [cpu |-> "100m", memory |-> "256Mi"],
              limits |-> [memory |-> "256Mi"]]],
        externalDatastore |->
          [database |-> db_name,
           host |-> SOURCE_DB_HOST,
           port |-> port,
           user |-> "vt_app",
           credentialsSecret |->
             [key |-> "/etc/credentials.yaml",
              volumeName |-> "vttablet-fake-credentials"]],
        dataVolumeClaimTemplate |->
          [accessModes |-> <<"ReadWriteOnce">>,
           resources |-> [requests |-> [storage |-> "10Gi"]],
           storageClassName |-> "ebs-csi-gp3"]]]

build_tablet_pool_config(g, cell, db_name, keyspace, port, paasta_pool, paasta_cluster, zk_address, throttle_query_table, throttle_metrics_threshold, tablet_type, region) ==
    TabletPoolConfig(
        g,
        VttabletFlags(dict_copy(g, "VTTABLET_EXTRA_FLAGS"), db_name,
                      throttle_query_table, throttle_metrics_threshold, region),
        VttabletEnv(copy_deepcopy(g, "VTTABLET_EXTRA_ENV"), db_name, keyspace,
                    zk_address, region),
        cell, db_name, port, paasta_pool, paasta_cluster, tablet_type)

-----------------------------------------------------------------------------
(* The port-mapping collaborator, line 470:                                 *)
(* load_system_paasta_config().get_mysql_port_mappings().  The table is     *)
(* system configuration: cluster name -> (tablet role -> port).             *)
get_mysql_port_mappings ==
    [main1 |-> [primary |-> 3306, migration |-> 3307],
     refresh1 |-> [primary |-> 3308],
     sanitized2 |-> [primary |-> 3309, reporting |-> 3310]]

\* line 470 stands inside the loop of line 463: every iteration queries the
\* collaborator; the number of queries after the one of this iteration
Queried(acc) == acc.queries + 1

\* str.startswith
startswith(s, prefix) ==
    Len(s) >= Len(prefix) /\ SubSeq(s, 1, Len(prefix)) = prefix

\* lines 481-489 with the test of the "sanitized" prefix left out
ThrottlePolicyNoSanitized(tablet_type, cluster) ==
    IF tablet_type = "migration"
    THEN [throttle_query_table |-> "migration_replication_delay",
          throttle_metrics_threshold |-> "7200"]
    ELSE [throttle_query_table |-> "read_replication_delay",
          throttle_metrics_threshold |->
             IF startswith(cluster, "refresh") THEN "30" ELSE "3"]

\* lines 481-489: throttle source and threshold of a (role, cluster)
ThrottlePolicy(tablet_type, cluster) ==
    IF tablet_type = "migration"
    THEN [throttle_query_table |-> "migration_replication_delay",
          throttle_metrics_threshold |-> "7200"]
    ELSE [throttle_query_table |-> "read_replication_delay",
          throttle_metrics_threshold |->
             IF startswith(cluster, "refresh") \/ startswith(cluster, "sanitized")
             THEN "30" ELSE "3"]

\* tablet_pools after one more pool config was added to it (lines 491-508)
AddPool(acc, one) ==
    [globals |-> one.globals, pools |-> Append(acc.pools, one.config)]

\* lines 491-508: the comprehension over cells for one (keyspace, role);
\* acc is the namespace and tablet_pools so far
RECURSIVE PoolsForCells(_, _, _, _, _, _, _, _, _, _, _)
PoolsForCells(acc, cells, db_name, keyspace, port, paasta_pool, paasta_cluster, zk_address, policy, tablet_type, region) ==
    IF cells = <<>>
    THEN acc
    ELSE PoolsForCells(
            AddPool(acc,
                    build_tablet_pool_config(
                        acc.globals, Head(cells), db_name, keyspace, port,
                        paasta_pool, paasta_cluster, zk_address,
                        policy.throttle_query_table,
                        policy.throttle_metrics_threshold, tablet_type, region)),
            Tail(cells), db_name, keyspace, port, paasta_pool, paasta_cluster,
            zk_address, policy, tablet_type, region)

\* lines 475-476 taking every migration role as unmapped
RoleSkippedOrMigration(mapping, tablet_type) ==
    tablet_type \notin DOMAIN mapping \/ tablet_type = "migration"

\* lines 475-476: the role is skipped when the cluster has no port for it
RoleSkipped(mapping, tablet_type) == tablet_type \notin DOMAIN mapping

\* lines 473-508: the loop over TABLET_TYPES from index i on
RECURSIVE PoolsForRoles(_, _, _, _, _, _, _, _, _, _, _)
PoolsForRoles(acc, i, mapping, cells, db_name, keyspace, cluster, paasta_pool, paasta_cluster, zk_address, region) ==
    IF i > Len(TABLET_TYPES)
    THEN acc
    ELSE PoolsForRoles(
            IF RoleSkipped(mapping, TABLET_TYPES[i])
            THEN acc
            ELSE PoolsForCells(acc, cells, db_name, keyspace,
                               mapping[TABLET_TYPES[i]], paasta_pool,
                               paasta_cluster, zk_address,
                               ThrottlePolicy(TABLET_TYPES[i], cluster),
                               TABLET_TYPES[i], region),
            i + 1, mapping, cells, db_name, keyspace, cluster, paasta_pool,
            paasta_cluster, zk_address, region)

\* lines 510-530: the keyspace entry
KeyspaceEntry(keyspace, tablet_pools) ==
    [name |-> keyspace,
     durabilityPolicy |-> "none",
     turndownPolicy |-> "Immediate",
     partitionings |->
       << [equal |->
            [parts |-> 1,
             shardTemplate |->
               [databaseInitScriptSecret |->
                  [volumeName |-> "keyspace-fake-init-script",
                   key |-> "/etc/init_db.sql"],
                tabletPools |-> tablet_pools]]] >>]

\* lines 510-530: config.append(...) with the pools built for the keyspace
AppendKeyspace(acc, keyspace, tp) ==
    [error |-> None,
     globals |-> tp.globals,
     config |-> Append(acc.config, KeyspaceEntry(keyspace, tp.pools)),
     queries |-> Queried(acc)]

\* lines 464-530 with mysql_port_mappings.get(cluster, {}) at line 475: a
\* cluster the table does not hold has no role, and its keyspace no pool
KeyspaceIterationNoRoles(acc, keyspace_config, mysql_port_mappings, cells, paasta_pool, paasta_cluster, zk_address, region) ==
    IF keyspace_config["cluster"] \notin DOMAIN mysql_port_mappings
    THEN AppendKeyspace(acc, keyspace_config["keyspace"],
                        [globals |-> acc.globals, pools |-> <<>>])
    ELSE AppendKeyspace(
            acc, keyspace_config["keyspace"],
            PoolsForRoles([globals |-> acc.globals, pools |-> <<>>], 1,
                          mysql_port_mappings[keyspace_config["cluster"]],
                          cells, keyspace_config["keyspace"],
                          keyspace_config["keyspace"],
                          keyspace_config["cluster"], paasta_pool,
                          paasta_cluster, zk_address, region))

\* lines 464-530: one iteration of the loop over keyspaces.  The query of
\* line 470 comes first; mysql_port_mappings[cluster] raises KeyError for a
\* cluster the table does not hold (line 475), and the list is lost
KeyspaceIteration(acc, keyspace_config, mysql_port_mappings, cells, paasta_pool, paasta_cluster, zk_address, region) ==
    IF keyspace_config["cluster"] \notin DOMAIN mysql_port_mappings
    THEN [error |-> "KeyError", globals |-> acc.globals, config |-> <<>>,
          queries |-> Queried(acc)]
    ELSE AppendKeyspace(
            acc, keyspace_config["keyspace"],
            PoolsForRoles([globals |-> acc.globals, pools |-> <<>>], 1,
                          mysql_port_mappings[keyspace_config["cluster"]],
                          cells, keyspace_config["keyspace"],
                          keyspace_config["keyspace"],
                          keyspace_config["cluster"], paasta_pool,
                          paasta_cluster, zk_address, region))

\* lines 463-530: the loop over keyspaces; acc is the error raised (or None),
\* the namespace, config so far and the port-mapping queries made
RECURSIVE KeyspacesLoop(_, _, _, _, _, _, _)
KeyspacesLoop(acc, cells, keyspaces, paasta_pool, paasta_cluster, zk_address, region) ==
    IF keyspaces = <<>> \/ acc.error # None
    THEN acc
    ELSE KeyspacesLoop(
            KeyspaceIteration(acc, Head(keyspaces), get_mysql_port_mappings,
                              cells, paasta_pool, paasta_cluster, zk_address,
                              region),
            cells, Tail(keyspaces), paasta_pool, paasta_cluster, zk_address,
            region)

(* build_keyspaces_config, lines 455-532.  Returns the list (or the error  *)
(* raised), the module namespace as the call leaves it, and the number of  *)
(* port-mapping queries made.                                               *)
build_keyspaces_config(g, cells, keyspaces, paasta_pool, paasta_cluster, zk_address, region) ==
    KeyspacesLoop([error |-> None, globals |-> g, config |-> <<>>, queries |-> 0],
                  cells, keyspaces, paasta_pool, paasta_cluster, zk_address,
                  region)

-----------------------------------------------------------------------------
(* generate_vitess_instance_config, lines 591-650 *)

\* "x is None" for the value of instance_config.get(k): the key is absent
\* (an instance description holds no explicit None)
IsNone(d, k) == k \notin DOMAIN d

\* cells after one more cell config was added to it (lines 637-640)
AddCell(acc, one) ==
    [globals |-> one.globals, configs |-> Append(acc.configs, one.config)]

\* lines 637-640: the comprehension over cells; acc is the namespace and the
\* list so far
RECURSIVE CellConfigs(_, _, _, _, _)
CellConfigs(acc, cells, paasta_pool, paasta_cluster, region) ==
    IF cells = <<>>
    THEN acc
    ELSE CellConfigs(
            AddCell(acc, build_cell_config(acc.globals, Head(cells), paasta_pool,
                                           paasta_cluster, region)),
            Tail(cells), paasta_pool, paasta_cluster, region)

\* lines 606-649: the dict display, given the parts built for it
InstanceConfigTree(ic, cells, dashboard, vtadmin, keyspaces) ==
    [namespace |-> "paasta-vitessclusters",
     cpus |-> get(ic, "cpus"),
     mem |-> get(ic, "mem"),
     min_instances |-> 1,
     max_instances |-> 1,
     deploy_group |-> get(ic, "deploy_group"),
     autoscaling |-> [setpoint |-> "0.7"],
     env |->
       [OPERATOR_NAME |-> "vitess-operator",
        POD_NAME |-> "vitess-k8s",
        PS_OPERATOR_POD_NAME |-> "vitess-k8s",
        PS_OPERATOR_POD_NAMESPACE |-> "paasta-vitessclusters",
        WATCH_NAMESPACE |-> "paasta-vitessclusters"],
     healthcheck_grace_period_seconds |-> 60,
     healthcheck_mode |-> "cmd",
     healthcheck_cmd |-> "true",
     images |->
       [vtctld |-> VTCTLD_IMAGE,
        vtadmin |-> VT_ADMIN_IMAGE,
        vtgate |-> VT_GATE_IMAGE,
        vttablet |-> VT_TABLET_IMAGE],
     globalLockserver |->
       [external |->
          [implementation |-> TOPO_IMPLEMENTATION,
           address |-> get(ic, "zk_address"),
           rootPath |-> TOPO_GLOBAL_ROOT]],
     cells |-> cells,
     vitessDashboard |-> dashboard,
     vtadmin |-> vtadmin,
     keyspaces |-> keyspaces,
     updateStrategy |-> [type |-> "Immediate"]]

\* lines 645-650: the keyspaces are built last; an error they raise ends the
\* call without a tree
WithKeyspaces(ic, cc, dash, ks) ==
    IF ks.error # None
    THEN [status |-> ks.error, globals |-> ks.globals, queries |-> ks.queries]
    ELSE [status |-> "ok",
          globals |-> ks.globals,
          queries |-> ks.queries,
          tree |-> InstanceConfigTree(
                      ic, cc.configs, dash.config,
                      build_vt_admin_config(Ref("instance_config.cells"),
                                            get(ic, "paasta_pool"),
                                            get(ic, "paasta_cluster")),
                      ks.config)]

\* lines 641-647: the dashboard, then vtadmin, then the keyspaces; iterating
\* keyspaces = None raises TypeError (line 463)
WithDashboard(ic, cc, dash) ==
    IF IsNone(ic, "keyspaces")
    THEN [status |-> "TypeError", globals |-> dash.globals, queries |-> 0]
    ELSE WithKeyspaces(
            ic, cc, dash,
            build_keyspaces_config(dash.globals, ic["cells"], ic["keyspaces"],
                                   get(ic, "paasta_pool"),
                                   get(ic, "paasta_cluster"),
                                   get(ic, "zk_address"), get(ic, "region")))

\* lines 637-644: the cells come first, the dashboard is handed the caller's
\* cells list itself
WithCells(ic, cc) ==
    WithDashboard(
        ic, cc,
        build_vitess_dashboard_config(cc.globals, Ref("instance_config.cells"),
                                      get(ic, "paasta_pool"),
                                      get(ic, "paasta_cluster"),
                                      get(ic, "zk_address")))

\* The dict display of lines 606-649 is evaluated in order: iterating
\* cells = None raises TypeError (line 639).
generate_vitess_instance_config(g, ic) ==
    IF IsNone(ic, "cells")
    THEN [status |-> "TypeError", globals |-> g, queries |-> 0]
    ELSE WithCells(ic, CellConfigs([globals |-> g, configs |-> <<>>], ic["cells"],
                                   get(ic, "paasta_pool"),
                                   get(ic, "paasta_cluster"), get(ic, "region")))

-----------------------------------------------------------------------------
(* Instance descriptions the calls are made with *)
\* a region and the lock-server address of that region
Sites ==
    { [region |-> "uswest1-devc", zk_address |-> "zk-a:2181"],
      [region |-> "useast1-prod", zk_address |-> "zk-b:2181"] }
CellNames == {"cellA", "cellB"}
KeyspaceDescriptors ==
    { [keyspace |-> "orders", cluster |-> "main1"],
      [keyspace |-> "users", cluster |-> "refresh1"],
      [keyspace |-> "reviews", cluster |-> "sanitized2"],
      [keyspace |-> "legacy", cluster |-> "offline9"] }

RequiredKeys ==
    {"cpus", "mem", "deploy_group", "zk_address", "paasta_pool",
     "paasta_cluster", "cells", "keyspaces", "region"}

SeqsUpTo(S, n) == UNION { [1..k -> S] : k \in 0..n }

\* lists without a repeated element
Distinct(q) == \A i, j \in DOMAIN q : q[i] = q[j] => i = j

FullDescription(cells, keyspaces) ==
    [cpus |-> "0.5",
     mem |-> "1024",
     deploy_group |-> "prod.non_canary",
     zk_address |-> "zk-a:2181",
     paasta_pool |-> "default",
     paasta_cluster |-> "norcal-devc",
     cells |-> cells,
     keyspaces |-> keyspaces,
     region |-> "uswest1-devc"]

\* the description without key k
Without(d, k) == [x \in DOMAIN d \ {k} |-> d[x]]

\* complete descriptions, and descriptions that lack one required key
InstanceDescriptions ==
    LET full == { FullDescription(c, k) :
                    c \in SeqsUpTo(CellNames, MaxCells),
                    k \in { q \in SeqsUpTo(KeyspaceDescriptors, MaxKeyspaces) :
                              Distinct(q) } }
    IN  full \cup { Without(d, k) : d \in full, k \in RequiredKeys }

\* the description with its region and lock-server address replaced
WithRegion(d, r, z) ==
    [x \in DOMAIN d |-> IF x = "region" THEN r
                        ELSE IF x = "zk_address" THEN z ELSE d[x]]

NoCall == [status |-> "none"]

\* the threads of the process that make synthesis calls
Threads == {"t1", "t2"}

\* a thread that has not called yet
Idle == [pc |-> "idle"]

Init ==
    /\ globals = ModuleGlobals
    /\ instance_config \in InstanceDescriptions
    /\ result = NoCall
    /\ port_queries = 0
    /\ calls = 0
    /\ prev_region = None
    /\ pool_call = NoCall
    /\ load_call = NoCall
    /\ threads = [t \in Threads |-> Idle]

-----------------------------------------------------------------------------
(* A synthesis call: generate_vitess_instance_config(instance_config) with  *)
(* the description's region and lock-server address set by the caller.      *)
Synthesize(site) ==
    /\ calls < MaxCalls
    /\ \E ic \in {WithRegion(instance_config, site.region, site.zk_address)} :
       \E out \in {generate_vitess_instance_config(globals, ic)} :
        /\ calls' = calls + 1
        /\ instance_config' = ic
        /\ globals' = out.globals
        /\ port_queries' = out.queries
        /\ result' = IF out.status = "ok"
                     THEN [status |-> "ok", args |-> ic, tree |-> out.tree]
                     ELSE [status |-> out.status, args |-> ic]
        /\ prev_region' = IF result = NoCall THEN None
                          ELSE get(result.args, "region")
        /\ UNCHANGED <<pool_call, load_call, threads>>

(* The caller writes to the tree it was handed.  A write to a part that is *)
(* a reference lands in the shared object the reference names.              *)

\* tree[part]["extraFlags"]["security_policy"] = "read-write"
\* for part vitessDashboard or vtadmin: extraFlags is a module-level dict
MutateExtraFlags(part) ==
    /\ result.status = "ok"
    /\ LET target == result.tree[part].extraFlags.ref
       IN  /\ get(globals[target], "security_policy") # "read-write"
           /\ globals' = [globals EXCEPT ![target] =
                              SetItem(@, "security_policy", "read-write")]
    /\ UNCHANGED <<instance_config, result, port_queries, calls, prev_region,
                   pool_call, load_call, threads>>

\* tree["vitessDashboard"]["cells"].append(c): cells is the caller's own list
MutateCells(c) ==
    /\ result.status = "ok"
    /\ result.tree.vitessDashboard.cells = Ref("instance_config.cells")
    /\ Len(instance_config["cells"]) < MaxCells
    /\ instance_config' = [instance_config EXCEPT !["cells"] = Append(@, c)]
    /\ UNCHANGED <<globals, result, port_queries, calls, prev_region,
                   pool_call, load_call, threads>>

\* tree["vitessDashboard"]["extraEnv"][i]["value"] = "tampered": extraEnv
\* and its entries were created by the call
MutateExtraEnv(i) ==
    /\ result.status = "ok"
    /\ i \in DOMAIN result.tree.vitessDashboard.extraEnv
    /\ get(result.tree.vitessDashboard.extraEnv[i], "value") # "tampered"
    /\ result' = [result EXCEPT !.tree.vitessDashboard.extraEnv[i] =
                      SetItem(@, "value", "tampered")]
    /\ UNCHANGED <<globals, instance_config, port_queries, calls, prev_region,
                   pool_call, load_call, threads>>

Next == \E site \in Sites : Synthesize(site)

Spec == Init /\ [][Next]_vars

(* Synthesis calls with a caller that writes to the trees it was handed.   *)
InitAlias ==
    /\ Init
    /\ DOMAIN instance_config = RequiredKeys
    /\ Len(instance_config["keyspaces"]) <= 1

NextAlias ==
    \/ \E site \in Sites : Synthesize(site)
    \/ \E part \in {"vitessDashboard", "vtadmin"} : MutateExtraFlags(part)
    \/ \E c \in CellNames : MutateCells(c)
    \/ MutateExtraEnv(Len(build_extra_env(None)) + Len(VTCTLD_EXTRA_ENV))

SpecAlias == InitAlias /\ [][NextAlias]_vars

(* A direct call of build_tablet_pool_config, made as lines 479-506 make   *)
(* it for one cell, one keyspace and one role the cluster has a port for:  *)
(* the throttle arguments are those of lines 481-489 for the role, the     *)
(* port is mysql_port_mappings[cluster][tablet_type].  The role is any key *)
(* of the cluster's port mapping, also one that TABLET_TYPES does not hold.*)
BuildTabletPool(cell, d, tablet_type, site) ==
    /\ pool_call = NoCall
    /\ \E out \in {build_tablet_pool_config(
                      globals, cell, d.keyspace, d.keyspace,
                      get_mysql_port_mappings[d.cluster][tablet_type],
                      "default", "norcal-devc", site.zk_address,
                      ThrottlePolicy(tablet_type, d.cluster).throttle_query_table,
                      ThrottlePolicy(tablet_type, d.cluster).throttle_metrics_threshold,
                      tablet_type, site.region)} :
        /\ globals' = out.globals
        /\ pool_call' = [status |-> "ok",
                         args |-> [cell |-> cell, db_name |-> d.keyspace,
                                   cluster |-> d.cluster,
                                   tablet_type |-> tablet_type,
                                   region |-> site.region],
                         config |-> out.config]
    /\ UNCHANGED <<instance_config, result, port_queries, calls, prev_region,
                   load_call, threads>>

\* the keyspace descriptors whose cluster the port mapping holds
MappedDescriptors ==
    { d \in KeyspaceDescriptors : d.cluster \in DOMAIN get_mysql_port_mappings }

InitPool ==
    /\ Init
    /\ DOMAIN instance_config = RequiredKeys
    /\ Len(instance_config["cells"]) <= 1
    /\ Len(instance_config["keyspaces"]) <= 1

NextPool ==
    \/ \E site \in Sites : Synthesize(site)
    \/ \E cell \in CellNames, d \in MappedDescriptors, site \in Sites :
         \E tablet_type \in DOMAIN get_mysql_port_mappings[d.cluster] :
            BuildTabletPool(cell, d, tablet_type, site)

SpecPool == InitPool /\ [][NextPool]_vars

\* the tree as the caller reads it: each reference gives the object it names
ResolvedTree(tree, g, ic) ==
    [tree EXCEPT
       !.vitessDashboard.extraFlags = g[@.ref],
       !.vitessDashboard.cells = ic["cells"],
       !.vtadmin.extraFlags = g[@.ref],
       !.vtadmin.cells = ic["cells"]]

-----------------------------------------------------------------------------
(* load_vitess_service_instance_configs, lines 653-671 *)

\* isinstance(v, dict): mappings are the values written [k |-> ...] or
\* (k :> ...); lists are written <<...>> and the other values are strings,
\* numbers and booleans
isinstance_dict(v) == SubSeq(ToString(v), 1, 1) \in {"[", "("}

(* deep_merge_dictionaries(overrides, defaults) of paasta_tools.utils: the *)
(* copy of defaults with every key of overrides laid onto it, recursively  *)
(* where both values are mappings and by replacement everywhere else.      *)
RECURSIVE deep_merge_dictionaries(_, _)
deep_merge_dictionaries(overrides, defaults) ==
    [k \in DOMAIN overrides \cup DOMAIN defaults |->
        IF k \notin DOMAIN overrides THEN defaults[k]
        ELSE IF k \notin DOMAIN defaults THEN overrides[k]
        ELSE IF isinstance_dict(overrides[k]) /\ isinstance_dict(defaults[k])
             THEN deep_merge_dictionaries(overrides[k], defaults[k])
             ELSE overrides[k]]

\* lines 668-670 with the two arguments exchanged
MergedConfigDefaultsFirst(vitess_instance_config, general_config) ==
    deep_merge_dictionaries(general_config, vitess_instance_config)

\* lines 668-670: deep_merge_dictionaries(overrides=vitess_instance_config,
\* defaults=general_config)
MergedConfig(vitess_instance_config, general_config) ==
    deep_merge_dictionaries(vitess_instance_config, general_config)

\* the outcome of a merge that works in place on the generated tree: the
\* tree's two extraFlags mappings are the module's own dicts, which then
\* hold the merged values
MergedInPlace(out, merged) ==
    [status |-> "ok",
     globals |-> [out.globals EXCEPT
                    !.VTCTLD_EXTRA_FLAGS = merged.vitessDashboard.extraFlags,
                    !.VTADMIN_EXTRA_FLAGS = merged.vtadmin.extraFlags],
     queries |-> out.queries,
     tree |-> out.tree,
     general_config |-> merged]

\* lines 668-671 with a merge that writes to its overrides argument
LoadedConfigInPlace(general_config, ic, out) ==
    IF out.status # "ok"
    THEN out
    ELSE MergedInPlace(out,
             MergedConfig(ResolvedTree(out.tree, out.globals, ic),
                          general_config))

\* lines 668-671 after the call of line 666 returned or raised out
LoadedConfig(general_config, ic, out) ==
    IF out.status # "ok"
    THEN out
    ELSE [status |-> "ok", globals |-> out.globals, queries |-> out.queries,
          tree |-> out.tree,
          general_config |->
             MergedConfig(ResolvedTree(out.tree, out.globals, ic),
                          general_config)]

\* lines 659-671; general_config and ic (instance_config) are what the readers
\* of lines 659 and 662 gave
load_vitess_service_instance_configs(g, general_config, ic) ==
    LoadedConfig(general_config, ic,
                 generate_vitess_instance_config(g, ic))

\* base service configurations read_service_configuration gives (line 659)
BaseConfigs ==
    << [description |-> "vitess clusters", cpus |-> "2"],
      [globalLockserver |->
          [external |-> [address |-> "zk-old:2181", port |-> 2181]],
       monitoring |-> [team |-> "dre"]],
      [cells |-> <<[name |-> "old-cell"]>>, images |-> "latest"],
      [cpus |-> [request |-> "1"], mem |-> "512"],
      [vitessDashboard |->
          [replicas |-> 3,
           extraFlags |-> [security_policy |-> "read-write", audit |-> "on"]],
       vtadmin |->
          [extraLabels |->
              ("paasta.yelp.com/pool" :> "batch")
              @@ ("paasta.yelp.com/owner" :> "dre")]] >>

(* A load of base configuration b: the inner synthesis call and the merge *)
(* onto the base config.  load_call keeps the load before it as previous.  *)
Load(site, b) ==
    /\ calls < MaxCalls
    /\ \E ic \in {WithRegion(instance_config, site.region, site.zk_address)} :
       \E out \in {load_vitess_service_instance_configs(globals, BaseConfigs[b], ic)} :
        /\ calls' = calls + 1
        /\ instance_config' = ic
        /\ globals' = out.globals
        /\ port_queries' = out.queries
        /\ result' = IF out.status = "ok"
                     THEN [status |-> "ok", args |-> ic, tree |-> out.tree]
                     ELSE [status |-> out.status, args |-> ic]
        /\ load_call' = IF out.status = "ok"
                        THEN [status |-> "ok", base |-> b,
                              defaults |-> BaseConfigs[b], args |-> ic,
                              general_config |-> out.general_config,
                              previous |-> Without(load_call, "previous")]
                        ELSE [status |-> out.status, base |-> b,
                              defaults |-> BaseConfigs[b], args |-> ic,
                              previous |-> Without(load_call, "previous")]
        /\ prev_region' = IF result = NoCall THEN None
                          ELSE get(result.args, "region")
        /\ UNCHANGED <<pool_call, threads>>

InitLoad ==
    /\ Init
    /\ DOMAIN instance_config = RequiredKeys
    /\ Len(instance_config["cells"]) <= 1
    /\ Len(instance_config["keyspaces"]) <= 1

NextLoad ==
    \E site \in Sites, b \in DOMAIN BaseConfigs : Load(site, b)

SpecLoad == InitLoad /\ [][NextLoad]_vars

-----------------------------------------------------------------------------
(* Synthesis calls of several threads.  A call runs as a sequence of tasks *)
(* in the order the code reaches them; the three builders that specialise  *)
(* an env blueprint run step by step: the copy of the blueprint (with the  *)
(* lines before it), then for each entry the replacement of its value and  *)
(* the append of the entry to the config.  Everything else a call does     *)
(* works on objects of the call alone and is one step.                     *)

\* lines 637-640: one build_cell_config call per cell
CellTasks(cells) ==
    [i \in DOMAIN cells |-> [kind |-> "cell", cell |-> cells[i]]]

\* lines 491-508: one build_tablet_pool_config call per cell
PoolTasks(d, tablet_type, port, cells) ==
    [i \in DOMAIN cells |->
        [kind |-> "pool", keyspace |-> d, tablet_type |-> tablet_type,
         port |-> port, cell |-> cells[i]]]

\* lines 473-508: the roles of TABLET_TYPES from index i on
RECURSIVE RoleTasks(_, _, _, _)
RoleTasks(i, d, mapping, cells) ==
    IF i > Len(TABLET_TYPES)
    THEN <<>>
    ELSE (IF RoleSkipped(mapping, TABLET_TYPES[i])
          THEN <<>>
          ELSE PoolTasks(d, TABLET_TYPES[i], mapping[TABLET_TYPES[i]], cells))
         \o RoleTasks(i + 1, d, mapping, cells)

\* lines 464-530: the query and lookup, the pools, the keyspace entry
KeyspaceTasks(d, cells) ==
    <<[kind |-> "lookup", keyspace |-> d]>>
    \o (IF d.cluster \in DOMAIN get_mysql_port_mappings
        THEN RoleTasks(1, d, get_mysql_port_mappings[d.cluster], cells)
        ELSE <<>>)
    \o <<[kind |-> "keyspace", keyspace |-> d]>>

\* lines 463-530: the loop over keyspaces
RECURSIVE AllKeyspaceTasks(_, _)
AllKeyspaceTasks(keyspaces, cells) ==
    IF keyspaces = <<>>
    THEN <<>>
    ELSE KeyspaceTasks(Head(keyspaces), cells)
         \o AllKeyspaceTasks(Tail(keyspaces), cells)

\* lines 637-647: cells, dashboard, vtadmin, keyspaces; iterating None raises
Tasks(ic) ==
    IF IsNone(ic, "cells")
    THEN <<[kind |-> "raise", error |-> "TypeError"]>>
    ELSE CellTasks(ic["cells"])
         \o <<[kind |-> "dashboard"], [kind |-> "vtadmin"]>>
         \o (IF IsNone(ic, "keyspaces")
             THEN <<[kind |-> "raise", error |-> "TypeError"]>>
             ELSE AllKeyspaceTasks(ic["keyspaces"], ic["cells"]))

\* a thread that entered generate_vitess_instance_config(ic), lines 591-604
Started(ic) ==
    [pc |-> "task", args |-> ic, tasks |-> Tasks(ic),
     env |-> None, flags |-> None, i |-> 0, appended |-> <<>>,
     cells |-> <<>>, dashboard |-> None, vtadmin |-> None,
     pools |-> <<>>, keyspaces |-> <<>>, queries |-> 0]

\* the blueprint a builder specialises (lines 250, 279, 431)
BlueprintOf(kind) ==
    CASE kind = "cell" -> "VTGATE_EXTRA_ENV"
      [] kind = "dashboard" -> "VTCTLD_EXTRA_ENV"
      [] kind = "pool" -> "VTTABLET_EXTRA_ENV"

\* lines 337-358 of the pool builder: the copy of the flags and the writes
FlagsOf(g, task, ic) ==
    IF task.kind = "pool"
    THEN VttabletFlags(
            dict_copy(g, "VTTABLET_EXTRA_FLAGS"), task.keyspace.keyspace,
            ThrottlePolicy(task.tablet_type,
                           task.keyspace.cluster).throttle_query_table,
            ThrottlePolicy(task.tablet_type,
                           task.keyspace.cluster).throttle_metrics_threshold,
            get(ic, "region"))
    ELSE dict_copy(g, "VTTABLET_EXTRA_FLAGS")

\* the value of the object behind a handle
Current(g, h) == IF h.shared THEN g[h.name] ELSE h.value

\* the loop body of the builder for one entry (lines 251-255, 280-284, 432-446)
EnvEntryOf(task, env, ic) ==
    CASE task.kind = "cell" -> VtgateEnvEntry(env, get(ic, "region"))
      [] task.kind = "dashboard" -> VtctldEnvEntry(env, get(ic, "zk_address"))
      [] task.kind = "pool" ->
           VttabletEnvEntry(env, task.keyspace.keyspace, task.keyspace.keyspace,
                            get(ic, "zk_address"), get(ic, "region"))

\* the thread after its builder returned its config, env being the entries
\* the loop appended (lines 257, 287, 452)
BuilderReturned(th, task, g, env) ==
    CASE task.kind = "cell" ->
           [th EXCEPT !.pc = "task", !.tasks = Tail(@),
              !.cells = Append(@,
                 CellConfig(g, env, task.cell, get(th.args, "paasta_pool"),
                            get(th.args, "paasta_cluster"),
                            get(th.args, "region")).config)]
      [] task.kind = "dashboard" ->
           [th EXCEPT !.pc = "task", !.tasks = Tail(@),
              !.dashboard =
                 DashboardConfig(g, env, Ref("instance_config.cells"),
                                 get(th.args, "paasta_pool"),
                                 get(th.args, "paasta_cluster")).config]
      [] task.kind = "pool" ->
           [th EXCEPT !.pc = "task", !.tasks = Tail(@),
              !.pools = Append(@,
                 TabletPoolConfig(g, th.flags, env, task.cell,
                                  task.keyspace.keyspace, task.port,
                                  get(th.args, "paasta_pool"),
                                  get(th.args, "paasta_cluster"),
                                  task.tablet_type).config)]

\* a thread whose call raised
Raised(th, error, others) ==
    [pc |-> "done", args |-> th.args, status |-> error,
     queries |-> th.queries, overlapped |-> others]

\* a thread whose call returned the dict display of lines 606-649
Returned(th, others) ==
    [pc |-> "done", args |-> th.args, status |-> "ok", queries |-> th.queries,
     tree |-> InstanceConfigTree(th.args, th.cells, th.dashboard, th.vtadmin,
                                 th.keyspaces),
     overlapped |-> others]

\* some other thread is inside a call
OthersRunning(t) ==
    \E u \in Threads \ {t} : threads[u].pc \notin {"idle", "done"}

\* thread t calls generate_vitess_instance_config for a site
Call(t, site) ==
    /\ threads[t].pc = "idle"
    /\ threads' = [threads EXCEPT ![t] =
                      Started(WithRegion(instance_config, site.region,
                                         site.zk_address))]
    /\ UNCHANGED <<globals, instance_config, result, port_queries, calls,
                   prev_region, pool_call, load_call>>

\* a builder starts: lines 227-250, 264-279 or 337-431, ending with the copy
\* of the blueprint
CopyBlueprint(t) ==
    /\ threads[t].pc = "task"
    /\ threads[t].tasks # <<>>
    /\ Head(threads[t].tasks).kind \in {"cell", "dashboard", "pool"}
    /\ \E flags \in {FlagsOf(globals, Head(threads[t].tasks), threads[t].args)} :
         /\ threads' = [threads EXCEPT ![t] =
               [@ EXCEPT !.pc = "replace", !.i = 1, !.appended = <<>>,
                         !.flags = flags,
                         !.env = copy_deepcopy(
                                    globals,
                                    BlueprintOf(Head(threads[t].tasks).kind))]]
         /\ globals' = Written(globals, flags)
    /\ UNCHANGED <<instance_config, result, port_queries, calls, prev_region,
                   pool_call, load_call>>

\* the if statements of the loop body for entry i
ReplaceValue(t) ==
    /\ threads[t].pc = "replace"
    /\ \E env \in {Update(threads[t].env,
                     [Current(globals, threads[t].env) EXCEPT ![threads[t].i] =
                        EnvEntryOf(Head(threads[t].tasks), @, threads[t].args)])} :
         /\ threads' = [threads EXCEPT ![t] = [@ EXCEPT !.pc = "append",
                                                         !.env = env]]
         /\ globals' = Written(globals, env)
    /\ UNCHANGED <<instance_config, result, port_queries, calls, prev_region,
                   pool_call, load_call>>

\* config["extraEnv"].append(env) for entry i; after the last entry the
\* builder returns
AppendEntry(t) ==
    /\ threads[t].pc = "append"
    /\ \E appended \in {Append(threads[t].appended,
                               Current(globals, threads[t].env)[threads[t].i])} :
         threads' = [threads EXCEPT ![t] =
            IF @.i < Len(Current(globals, @.env))
            THEN [@ EXCEPT !.pc = "replace", !.i = @ + 1,
                           !.appended = appended]
            ELSE BuilderReturned(@, Head(@.tasks), globals,
                                 [shared |-> FALSE, name |-> @.env.name,
                                  value |-> appended])]
    /\ UNCHANGED <<globals, instance_config, result, port_queries, calls,
                   prev_region, pool_call, load_call>>

\* line 644: build_vt_admin_config
BuildVtAdmin(t) ==
    /\ threads[t].pc = "task"
    /\ threads[t].tasks # <<>>
    /\ Head(threads[t].tasks).kind = "vtadmin"
    /\ threads' = [threads EXCEPT ![t] =
          [@ EXCEPT !.tasks = Tail(@),
                    !.vtadmin = build_vt_admin_config(
                                   Ref("instance_config.cells"),
                                   get(threads[t].args, "paasta_pool"),
                                   get(threads[t].args, "paasta_cluster"))]]
    /\ UNCHANGED <<globals, instance_config, result, port_queries, calls,
                   prev_region, pool_call, load_call>>

\* lines 464-475: the query of the port mapping and the lookup of the cluster
LookupPorts(t) ==
    /\ threads[t].pc = "task"
    /\ threads[t].tasks # <<>>
    /\ Head(threads[t].tasks).kind = "lookup"
    /\ threads' = [threads EXCEPT ![t] =
          IF Head(@.tasks).keyspace.cluster \in DOMAIN get_mysql_port_mappings
          THEN [@ EXCEPT !.tasks = Tail(@), !.queries = @ + 1]
          ELSE Raised([@ EXCEPT !.queries = @ + 1], "KeyError",
                      OthersRunning(t))]
    /\ UNCHANGED <<globals, instance_config, result, port_queries, calls,
                   prev_region, pool_call, load_call>>

\* lines 510-530: config.append of the keyspace entry
AppendKeyspaceEntry(t) ==
    /\ threads[t].pc = "task"
    /\ threads[t].tasks # <<>>
    /\ Head(threads[t].tasks).kind = "keyspace"
    /\ threads' = [threads EXCEPT ![t] =
          [@ EXCEPT !.tasks = Tail(@), !.pools = <<>>,
                    !.keyspaces =
                       Append(@, KeyspaceEntry(
                                    Head(threads[t].tasks).keyspace.keyspace,
                                    threads[t].pools))]]
    /\ UNCHANGED <<globals, instance_config, result, port_queries, calls,
                   prev_region, pool_call, load_call>>

\* iterating cells = None (line 639) or keyspaces = None (line 463)
Raise(t) ==
    /\ threads[t].pc = "task"
    /\ threads[t].tasks # <<>>
    /\ Head(threads[t].tasks).kind = "raise"
    /\ threads' = [threads EXCEPT ![t] =
          Raised(@, Head(@.tasks).error, OthersRunning(t))]
    /\ UNCHANGED <<globals, instance_config, result, port_queries, calls,
                   prev_region, pool_call, load_call>>

\* line 650: return vitess_instance_config
Return(t) ==
    /\ threads[t].pc = "task"
    /\ threads[t].tasks = <<>>
    /\ threads' = [threads EXCEPT ![t] = Returned(@, OthersRunning(t))]
    /\ UNCHANGED <<globals, instance_config, result, port_queries, calls,
                   prev_region, pool_call, load_call>>

InitConcurrent ==
    /\ Init
    /\ RequiredKeys \ {"cells", "keyspaces"} \subseteq DOMAIN instance_config
    /\ "cells" \in DOMAIN instance_config =>
          instance_config["cells"] \in {<<>>, <<"cellA">>}
    /\ "keyspaces" \in DOMAIN instance_config =>
          Len(instance_config["keyspaces"]) <= 1

NextConcurrent ==
    \E t \in Threads :
       \/ \E site \in Sites : Call(t, site)
       \/ CopyBlueprint(t)
       \/ ReplaceValue(t)
       \/ AppendEntry(t)
       \/ BuildVtAdmin(t)
       \/ LookupPorts(t)
       \/ AppendKeyspaceEntry(t)
       \/ Raise(t)
       \/ Return(t)

SpecConcurrent == InitConcurrent /\ [][NextConcurrent]_vars

-----------------------------------------------------------------------------
(* Reading a returned tree *)

\* the tabletPools list of the j-th keyspace of a tree
TabletPools(tree, j) ==
    tree.keyspaces[j].partitionings[1].equal.shardTemplate.tabletPools

Ok == result.status = "ok"

\* the roles the fan-out knows
KnownRoles == {"primary", "migration"}

-----------------------------------------------------------------------------
(* C1 - Fan-out completeness: a returned tree has one keyspace entry per   *)
(* descriptor; for each descriptor and each role of {primary, migration}   *)
(* the entry holds exactly len(cells) pools of that role when the role is  *)
(* a key of the port mapping of the descriptor's cluster and none when it  *)
(* is not, and it holds no other pool.                                      *)
FanOutCompleteness ==
    Ok =>
      LET ks == result.args["keyspaces"]
          cells == result.args["cells"]
      IN  /\ Len(result.tree.keyspaces) = Len(ks)
          /\ \A j \in DOMAIN ks :
               LET pools == TabletPools(result.tree, j)
                   m == get_mysql_port_mappings[ks[j].cluster]
                   Of(role) == { i \in DOMAIN pools :
                                   pools[i].name = ks[j].keyspace \o "_" \o role }
               IN  /\ \A role \in KnownRoles :
                         Cardinality(Of(role)) =
                            IF role \in DOMAIN m THEN Len(cells) ELSE 0
                   /\ DOMAIN pools = UNION { Of(role) : role \in KnownRoles }

\* a tree with two cells and a keyspace whose cluster maps primary but not
\* migration: two primary pools, no migration pool
FanOutWitness ==
    /\ Ok
    /\ Len(result.args["cells"]) = 2
    /\ \E j \in DOMAIN result.args["keyspaces"] :
         /\ result.args["keyspaces"][j].cluster = "refresh1"
         /\ Len(TabletPools(result.tree, j)) = 2

-----------------------------------------------------------------------------
(* C2 - Threshold correctness: in a returned tree every migration pool     *)
(* carries throttle source migration_replication_delay and threshold 7200, *)
(* every primary pool carries read_replication_delay and threshold 30 when *)
(* its keyspace's cluster is refresh1 or sanitized2 (the names that start  *)
(* with "refresh" or "sanitized") and 3 for main1; the values stand in the *)
(* pool's throttle_metrics_query and throttle_metrics_threshold flags.     *)
ThrottleQuery(table) ==
    "select max_replication_delay from max_mysql_replication_delay."
    \o table \o ";"

PrimaryThreshold == [main1 |-> "3", refresh1 |-> "30", sanitized2 |-> "30"]

ThresholdCorrectness ==
    Ok =>
      \A j \in DOMAIN result.args["keyspaces"] :
        LET d == result.args["keyspaces"][j]
            pools == TabletPools(result.tree, j)
        IN  \A i \in DOMAIN pools :
              LET flags == pools[i].vttablet.extraFlags
              IN  /\ pools[i].name = d.keyspace \o "_migration" =>
                       /\ flags["throttle_metrics_query"] =
                             ThrottleQuery("migration_replication_delay")
                       /\ flags["throttle_metrics_threshold"] = "7200"
                  /\ pools[i].name = d.keyspace \o "_primary" =>
                       /\ flags["throttle_metrics_query"] =
                             ThrottleQuery("read_replication_delay")
                       /\ flags["throttle_metrics_threshold"] =
                             PrimaryThreshold[d.cluster]

\* a tree holding a sanitized primary pool (30) next to the primary (3) and
\* migration (7200) pools of main1
ThresholdWitness ==
    /\ Ok
    /\ Len(result.args["cells"]) >= 1
    /\ \E j, k \in DOMAIN result.args["keyspaces"] :
         /\ result.args["keyspaces"][j].cluster = "sanitized2"
         /\ TabletPools(result.tree, j)[1].vttablet.extraFlags[
               "throttle_metrics_threshold"] = "30"
         /\ result.args["keyspaces"][k].cluster = "main1"
         /\ \E i \in DOMAIN TabletPools(result.tree, k) :
              TabletPools(result.tree, k)[i].vttablet.extraFlags[
                 "throttle_metrics_threshold"] = "7200"

-----------------------------------------------------------------------------
(* C3 - Template isolation: after any sequence of synthesis calls the      *)
(* blueprints VTTABLET_EXTRA_ENV, VTGATE_EXTRA_ENV, VTCTLD_EXTRA_ENV and   *)
(* VTTABLET_EXTRA_FLAGS hold the values the module was loaded with, and    *)
(* the tree of the latest call is the tree its description yields from the *)
(* blueprints as loaded, whatever the earlier calls were.                  *)
TemplateIsolation ==
    /\ globals.VTTABLET_EXTRA_ENV = VTTABLET_EXTRA_ENV
    /\ globals.VTGATE_EXTRA_ENV = VTGATE_EXTRA_ENV
    /\ globals.VTCTLD_EXTRA_ENV = VTCTLD_EXTRA_ENV
    /\ globals.VTTABLET_EXTRA_FLAGS = VTTABLET_EXTRA_FLAGS
    /\ Ok => result.tree =
               generate_vitess_instance_config(ModuleGlobals, result.args).tree

\* a second call, made for another region than the call before it, that
\* built cells and tablet pools
TemplateIsolationWitness ==
    /\ Ok
    /\ calls = 2
    /\ prev_region \notin {None, get(result.args, "region")}
    /\ get(result.args, "region") = "useast1-prod"
    /\ Len(result.tree.cells) >= 1
    /\ \E j \in DOMAIN result.tree.keyspaces :
         Len(TabletPools(result.tree, j)) >= 1

-----------------------------------------------------------------------------
(* C6 - Missing required input field.                                      *)

\* every keyspace of the latest call names a cluster the port mapping holds
AllMapped ==
    \A j \in DOMAIN result.args["keyspaces"] :
       result.args["keyspaces"][j].cluster \in DOMAIN get_mysql_port_mappings

(* C6 as claimed: a call whose description lacks one of the nine keys (and *)
(* is otherwise in order) returns a tree and raises no error.              *)
MissingFieldNeverRaises ==
    ( /\ result.status # "none"
      /\ DOMAIN result.args # RequiredKeys
      /\ "keyspaces" \in DOMAIN result.args => AllMapped )
    => Ok

\* where the tree holds the value of key k
Placeholder(k, v, text) ==
    LET tree == result.tree IN
    CASE k \in {"cpus", "mem", "deploy_group"} -> tree[k] = v
      [] k = "zk_address" ->
           /\ tree.globalLockserver.external.address = v
           /\ tree.vitessDashboard.extraEnv[5].value =
                 "--topo_implementation zk2 --topo_global_server_address $"
                 \o text \o " --topo_global_root /vitess-paasta/global"
           /\ \A j \in DOMAIN tree.keyspaces :
                \A i \in DOMAIN TabletPools(tree, j) :
                   TabletPools(tree, j)[i].extraEnv[3] =
                      [name |-> "CELL_TOPOLOGY_SERVERS", value |-> v]
      [] k = "paasta_pool" ->
           /\ tree.vtadmin.extraLabels["paasta.yelp.com/pool"] = v
           /\ tree.vtadmin.affinity.nodeAffinity
                 .requiredDuringSchedulingIgnoredDuringExecution
                 .nodeSelectorTerms[1].matchExpressions[1].values = <<v>>
      [] k = "paasta_cluster" ->
           /\ tree.vtadmin.extraLabels["paasta.yelp.com/cluster"] = v
           /\ tree.vtadmin.extraEnv[2] = [name |-> "PAASTA_CLUSTER", value |-> v]
      [] k = "region" ->
           \A i \in DOMAIN tree.cells :
              /\ tree.cells[i].gateway.extraFlags["mysql_auth_vault_addr"] =
                    "https://vault-dre." \o text \o ".yelpcorp.com:8200"
              /\ tree.cells[i].gateway.extraEnv[3] =
                    [name |-> "VAULT_ADDR",
                     value |-> "https://vault-dre." \o text \o ".yelpcorp.com:8200"]

(* C6 as amended: a description that lacks cells or keyspaces makes the    *)
(* call raise TypeError and return no tree; a description that lacks one   *)
(* of the seven other keys fails or succeeds as the complete description   *)
(* does (it fails only for an unmapped cluster), and the tree it returns   *)
(* holds None where the value would stand and the text "None" where the    *)
(* value would be formatted into a string.                                 *)
MissingFieldOutcome ==
    result.status # "none" =>
      \A k \in RequiredKeys \ DOMAIN result.args :
         IF k \in {"cells", "keyspaces"}
         THEN result.status = "TypeError" /\ "tree" \notin DOMAIN result
         ELSE /\ result.status = IF AllMapped THEN "ok" ELSE "KeyError"
              /\ Ok => Placeholder(k, None, "None")

\* a call without region that returned a tree with cells in it
MissingFieldWitness ==
    /\ Ok
    /\ "region" \notin DOMAIN result.args
    /\ Len(result.tree.cells) >= 1
    /\ result.tree.cells[1].gateway.extraFlags["mysql_auth_vault_tls_ca"] =
          "/etc/vault/all_cas/acm-privateca-None.crt"

-----------------------------------------------------------------------------
(* C7 - Result ordering: the keyspace entries follow the input descriptors *)
(* in order; in each entry the pools are those of role primary, in the     *)
(* order of the input cells, followed by those of role migration, in the   *)
(* order of the input cells (each role only if the cluster maps it).       *)
ExpectedPoolOrder(d, cells) ==
    LET m == get_mysql_port_mappings[d.cluster]
        For(role) == IF role \in DOMAIN m
                     THEN [i \in DOMAIN cells |->
                             [name |-> d.keyspace \o "_" \o role, cell |-> cells[i]]]
                     ELSE <<>>
    IN  For("primary") \o For("migration")

ResultOrdering ==
    Ok =>
      LET ks == result.args["keyspaces"] IN
      /\ DOMAIN result.tree.keyspaces = DOMAIN ks
      /\ \A j \in DOMAIN ks :
           /\ result.tree.keyspaces[j].name = ks[j].keyspace
           /\ [i \in DOMAIN TabletPools(result.tree, j) |->
                 [name |-> TabletPools(result.tree, j)[i].name,
                  cell |-> TabletPools(result.tree, j)[i].cell]]
              = ExpectedPoolOrder(ks[j], result.args["cells"])

\* cells given as cellB, cellA and keyspaces as users, orders: the tree
\* keeps both orders, and orders lists its primary pools first
ResultOrderingWitness ==
    /\ Ok
    /\ result.args["cells"] = <<"cellB", "cellA">>
    /\ Len(result.args["keyspaces"]) = 2
    /\ result.tree.keyspaces[1].name = "users"
    /\ result.tree.keyspaces[2].name = "orders"
    /\ Len(TabletPools(result.tree, 2)) = 4
    /\ TabletPools(result.tree, 2)[2].name = "orders_primary"
    /\ TabletPools(result.tree, 2)[2].cell = "cellA"
    /\ TabletPools(result.tree, 2)[3].name = "orders_migration"

-----------------------------------------------------------------------------
(* C8 - The port-mapping collaborator is queried exactly once by every     *)
(* synthesis call that returns a tree, whatever the number of keyspaces of *)
(* the description (none, one or several).                                  *)
PortMappingQueriedOnce ==
    Ok => port_queries = 1

-----------------------------------------------------------------------------
(* C10 - Naming rule: every tablet pool of the keyspace entry built for    *)
(* database d is, for one role r the cluster maps, named "d_r" with the    *)
(* same tablet_type label, of type externalmaster when r is primary and    *)
(* externalreplica otherwise, with externalDatastore.database d and the    *)
(* port the mapping of the keyspace's cluster gives for r.                 *)
NamingRule ==
    Ok =>
      \A j \in DOMAIN result.args["keyspaces"] :
        LET d == result.args["keyspaces"][j]
            m == get_mysql_port_mappings[d.cluster]
        IN  \A i \in DOMAIN TabletPools(result.tree, j) :
              LET p == TabletPools(result.tree, j)[i] IN
              \E r \in KnownRoles \cap DOMAIN m :
                 /\ p.name = d.keyspace \o "_" \o r
                 /\ p.extraLabels["tablet_type"] = p.name
                 /\ p.type = IF r = "primary" THEN "externalmaster"
                                              ELSE "externalreplica"
                 /\ p.externalDatastore.database = d.keyspace
                 /\ p.externalDatastore.port = m[r]

\* the pools of orders on main1: orders_primary, an externalmaster on port
\* 3306, and orders_migration, an externalreplica on port 3307
NamingWitness ==
    /\ Ok
    /\ result.args["cells"] = <<"cellA">>
    /\ result.args["keyspaces"] = <<[keyspace |-> "orders", cluster |-> "main1"]>>
    /\ TabletPools(result.tree, 1)[1].name = "orders_primary"
    /\ TabletPools(result.tree, 1)[1].type = "externalmaster"
    /\ TabletPools(result.tree, 1)[1].externalDatastore.port = 3306
    /\ TabletPools(result.tree, 1)[2].name = "orders_migration"
    /\ TabletPools(result.tree, 1)[2].type = "externalreplica"
    /\ TabletPools(result.tree, 1)[2].externalDatastore.port = 3307

-----------------------------------------------------------------------------
(* C9 - Freshness of the output: no part of a returned tree is the same    *)
(* object as a blueprint or as a part of the input, so whatever the caller *)
(* writes to the trees it was handed, the six blueprints hold the values   *)
(* the module was loaded with and the instance description is the one the  *)
(* latest call was made with.                                               *)
OutputFreshness ==
    /\ globals = ModuleGlobals
    /\ result.status # "none" => instance_config = result.args

-----------------------------------------------------------------------------
(* C5 - Unrecognized tablet role.                                          *)

\* the roles of a cluster's port mapping that are outside {primary, migration}
UnrecognizedRoles(cluster) == DOMAIN get_mysql_port_mappings[cluster] \ KnownRoles

(* C5 as claimed: a role outside {primary, migration} makes the call fail: *)
(* build_tablet_pool_config returns no pool for such a role, and a         *)
(* synthesis call for a keyspace whose cluster maps such a role returns no *)
(* tree.                                                                    *)
UnrecognizedRoleFails ==
    /\ ( /\ pool_call.status # "none"
         /\ pool_call.args.tablet_type \notin KnownRoles )
       => pool_call.status # "ok"
    /\ ( /\ result.status # "none"
         /\ AllMapped
         /\ \E j \in DOMAIN result.args["keyspaces"] :
               UnrecognizedRoles(result.args["keyspaces"][j].cluster) # {} )
       => ~Ok

(* C5 as amended: no role makes a call fail.  build_tablet_pool_config     *)
(* called for database d with a role r outside {primary, migration}        *)
(* returns a pool named "d_r" of type externalreplica, and the policy of   *)
(* lines 481-489 gives r the source read_replication_delay with the        *)
(* threshold of the cluster; a synthesis call walks TABLET_TYPES only, so  *)
(* it returns its tree and the tree holds no pool for a role of the port   *)
(* mapping outside {primary, migration}.                                    *)
UnrecognizedRoleOutcome ==
    /\ pool_call.status # "none" =>
          /\ pool_call.status = "ok"
          /\ pool_call.args.tablet_type \notin KnownRoles =>
               LET a == pool_call.args
                   p == pool_call.config
               IN  /\ p.name = a.db_name \o "_" \o a.tablet_type
                   /\ p.type = "externalreplica"
                   /\ p.externalDatastore.port =
                         get_mysql_port_mappings[a.cluster][a.tablet_type]
                   /\ p.vttablet.extraFlags["throttle_metrics_query"] =
                         ThrottleQuery("read_replication_delay")
                   /\ p.vttablet.extraFlags["throttle_metrics_threshold"] =
                         PrimaryThreshold[a.cluster]
    /\ (result.status # "none" /\ AllMapped) =>
          /\ Ok
          /\ \A j \in DOMAIN result.args["keyspaces"] :
               LET d == result.args["keyspaces"][j] IN
               \A r \in UnrecognizedRoles(d.cluster) :
                 \A i \in DOMAIN TabletPools(result.tree, j) :
                    TabletPools(result.tree, j)[i].name # d.keyspace \o "_" \o r

\* a direct call for role reporting of reviews on sanitized2 that returned
\* an externalreplica pool, next to a synthesis call for the same keyspace
\* that returned a tree with the primary pool only
UnrecognizedRoleWitness ==
    /\ pool_call.status = "ok"
    /\ pool_call.args.tablet_type = "reporting"
    /\ pool_call.config.name = "reviews_reporting"
    /\ pool_call.config.type = "externalreplica"
    /\ pool_call.config.externalDatastore.port = 3310
    /\ Ok
    /\ result.args["keyspaces"] = <<[keyspace |-> "reviews", cluster |-> "sanitized2"]>>
    /\ Len(result.args["cells"]) = 1
    /\ Len(TabletPools(result.tree, 1)) = 1

-----------------------------------------------------------------------------
(* C4 - Deep-merge precedence: in the final configuration of a load, at    *)
(* every key path, a key that only the base configuration holds keeps the  *)
(* base value, a key that only the generated tree holds has the generated  *)
(* value, and a key both hold is merged recursively when both values are   *)
(* mappings and has the generated value otherwise (lists replaced whole,   *)
(* mapping against scalar decided for the generated value, no error).      *)

\* mapping, list, string, number or boolean
Kind(v) == IF isinstance_dict(v) THEN "dict" ELSE SubSeq(ToString(v), 1, 1)

\* equal values of the same kind
Same(a, b) == Kind(a) = Kind(b) /\ a = b

RECURSIVE MergeHolds(_, _, _)
MergeHolds(final, overrides, defaults) ==
    /\ DOMAIN final = DOMAIN overrides \cup DOMAIN defaults
    /\ \A k \in DOMAIN final :
         IF k \notin DOMAIN overrides THEN Same(final[k], defaults[k])
         ELSE IF k \notin DOMAIN defaults THEN Same(final[k], overrides[k])
         ELSE IF isinstance_dict(overrides[k]) /\ isinstance_dict(defaults[k])
              THEN /\ isinstance_dict(final[k])
                   /\ MergeHolds(final[k], overrides[k], defaults[k])
              ELSE Same(final[k], overrides[k])

MergePrecedence ==
    /\ load_call.status = "ok" =>
          MergeHolds(load_call.general_config,
                     ResolvedTree(result.tree, globals, result.args),
                     load_call.defaults)
    /\ load_call.status # "none" => load_call.status = result.status

\* a load onto the base that holds globalLockserver and monitoring: the
\* generated address replaced the base address two levels down, next to the
\* port that only the base holds, and monitoring stayed
MergeWitness ==
    /\ load_call.status = "ok"
    /\ "monitoring" \in DOMAIN load_call.defaults
    /\ load_call.general_config.monitoring = [team |-> "dre"]
    /\ load_call.general_config.globalLockserver.external.port = 2181
    /\ load_call.general_config.globalLockserver.external.address = "zk-b:2181"
    /\ load_call.general_config.globalLockserver.external.implementation = "zk2"
    /\ Len(load_call.general_config.cells) = 1

-----------------------------------------------------------------------------
-----------------------------------------------------------------------------
(* C13 - Parameter templating frame: in a returned tree the extraEnv list  *)
(* of every tablet pool, of every cell gateway and of the dashboard is the *)
(* entries PAASTA_POD_IP and PAASTA_CLUSTER followed by one entry per      *)
(* entry of its blueprint, in the blueprint's order and with its names; an *)
(* entry not named TOPOLOGY_FLAGS, CELL_TOPOLOGY_SERVERS, DB, KEYSPACE,    *)
(* VAULT_ADDR or VAULT_CACERT is the blueprint's entry (so are the secret  *)
(* references VAULT_ROLEID and VAULT_SECRETID), and VAULT_ADDR and         *)
(* VAULT_CACERT carry the strings made from the call's region.             *)
PlaceholderNames ==
    {"TOPOLOGY_FLAGS", "CELL_TOPOLOGY_SERVERS", "DB", "KEYSPACE",
     "VAULT_ADDR", "VAULT_CACERT"}

EnvFrame(env, blueprint, args) ==
    /\ Len(env) = 2 + Len(blueprint)
    /\ env[1] = [name |-> "PAASTA_POD_IP",
                 valueFrom |-> [fieldRef |-> [fieldPath |-> "status.podIP"]]]
    /\ env[2] = [name |-> "PAASTA_CLUSTER", value |-> get(args, "paasta_cluster")]
    /\ \A i \in DOMAIN blueprint :
         /\ env[2 + i].name = blueprint[i].name
         /\ DOMAIN env[2 + i] = DOMAIN blueprint[i]
         /\ blueprint[i].name \notin PlaceholderNames => env[2 + i] = blueprint[i]
         /\ blueprint[i].name = "VAULT_ADDR" =>
               env[2 + i].value = "https://vault-dre."
                  \o Format(get(args, "region")) \o ".yelpcorp.com:8200"
         /\ blueprint[i].name = "VAULT_CACERT" =>
               env[2 + i].value = "/etc/vault/all_cas/acm-privateca-"
                  \o Format(get(args, "region")) \o ".crt"

TemplatingFrame ==
    Ok =>
      /\ EnvFrame(result.tree.vitessDashboard.extraEnv, VTCTLD_EXTRA_ENV,
                  result.args)
      /\ \A c \in DOMAIN result.tree.cells :
            EnvFrame(result.tree.cells[c].gateway.extraEnv, VTGATE_EXTRA_ENV,
                     result.args)
      /\ \A j \in DOMAIN result.tree.keyspaces :
            \A i \in DOMAIN TabletPools(result.tree, j) :
               EnvFrame(TabletPools(result.tree, j)[i].extraEnv,
                        VTTABLET_EXTRA_ENV, result.args)

\* a tree built for region useast1-prod with a cell and a tablet pool: the
\* pool's VAULT_ADDR names the region, its VAULT_ROLEID is the blueprint's
\* secret reference and its ROLE is the blueprint's rdonly
TemplatingFrameWitness ==
    /\ Ok
    /\ get(result.args, "region") = "useast1-prod"
    /\ Len(result.tree.cells) >= 1
    /\ Len(result.tree.cells[1].gateway.extraEnv) = 6
    /\ result.tree.cells[1].gateway.extraEnv[4] = VTGATE_EXTRA_ENV[2]
    /\ Len(result.tree.keyspaces) >= 1
    /\ Len(TabletPools(result.tree, 1)[1].extraEnv) = 15
    /\ TabletPools(result.tree, 1)[1].extraEnv[12].value =
          "https://vault-dre.useast1-prod.yelpcorp.com:8200"
    /\ TabletPools(result.tree, 1)[1].extraEnv[13] = VTTABLET_EXTRA_ENV[11]
    /\ TabletPools(result.tree, 1)[1].extraEnv[8] =
          [name |-> "ROLE", value |-> "rdonly"]

-----------------------------------------------------------------------------
(* C14 - A keyspace whose cluster has no entry in the port mapping is not  *)
(* skipped: a synthesis call whose description holds such a keyspace       *)
(* raises an error (KeyError from the lookup, when the call gets as far as *)
(* the keyspaces) and returns no tree at all, and the blueprints hold the  *)
(* values the module was loaded with.                                       *)
UnmappedClusterAborts ==
    ( /\ result.status # "none"
      /\ "keyspaces" \in DOMAIN result.args
      /\ ~AllMapped )
    => /\ result.status = IF "cells" \in DOMAIN result.args
                          THEN "KeyError" ELSE "TypeError"
       /\ DOMAIN result = {"status", "args"}
       /\ globals = ModuleGlobals

\* a call for cell cellA and keyspaces orders (main1) and legacy (offline9,
\* which the port mapping lacks): the orders entry was built, then the
\* lookup for legacy failed at the second query and no tree came back
UnmappedClusterWitness ==
    /\ result.status = "KeyError"
    /\ "tree" \notin DOMAIN result
    /\ result.args["cells"] = <<"cellA">>
    /\ result.args["keyspaces"] =
          << [keyspace |-> "orders", cluster |-> "main1"],
             [keyspace |-> "legacy", cluster |-> "offline9"] >>
    /\ port_queries = 2
    /\ globals = ModuleGlobals

-----------------------------------------------------------------------------
(* C12 - Synthesis calls of several threads, made with different regions   *)
(* and lock-server addresses and interleaved at the copy-blueprint,        *)
(* replace-value and append-entry steps, need no lock: every call ends as  *)
(* the same call ends when it runs alone in a freshly imported module      *)
(* (same status, same number of queries, same tree), and in no state does  *)
(* a blueprint of the module hold a value other than the one it was        *)
(* defined with.                                                           *)

\* the outcome of a finished thread is the outcome of the call run alone
AsAlone(th, alone) ==
    /\ th.status = alone.status
    /\ th.queries = alone.queries
    /\ th.status = "ok" =>
          ResolvedTree(th.tree, globals, th.args)
             = ResolvedTree(alone.tree, ModuleGlobals, th.args)

ConcurrentIsolation ==
    /\ globals = ModuleGlobals
    /\ \A t \in Threads :
          threads[t].pc = "done" =>
             AsAlone(threads[t],
                     generate_vitess_instance_config(ModuleGlobals,
                                                     threads[t].args))

\* two calls for different sites, each with a cell and a keyspace that has
\* pools, have both returned, and one returned while the other was running
ConcurrentIsolationWitness ==
    /\ \A t \in Threads :
          /\ threads[t].pc = "done"
          /\ threads[t].status = "ok"
          /\ Len(threads[t].tree["keyspaces"]) = 1
          /\ Len(threads[t].tree["keyspaces"][1]["partitionings"][1]["equal"]
                    ["shardTemplate"]["tabletPools"]) >= 1
          /\ Len(threads[t].tree["cells"]) = 1
    /\ get(threads["t1"].args, "region") # get(threads["t2"].args, "region")
    /\ get(threads["t1"].args, "zk_address")
          # get(threads["t2"].args, "zk_address")
    /\ threads["t1"].tree # threads["t2"].tree
    /\ \E t \in Threads : threads[t].overlapped

====
